---- MODULE Spec2Model ----
(***************************************************************************)
(* A model of the two scripts of the repository:                           *)
(*   login_bot.py    load_credentials, create_driver, login                *)
(*   auto_refresh.py actualizar_pagina                                     *)
(*                                                                         *)
(* Text is modelled as a sequence of tokens.  A token is one character,    *)
(* except that the words `username' and `password' are single tokens, so   *)
(* that the comparison  key == "username"  of the source is equality with  *)
(* the one-token sequence <<"username">>.                                  *)
(***************************************************************************)
EXTENDS Integers, Sequences, FiniteSets, TLC

VARIABLES
    pc,                 \* the phase of the running procedure
    step,               \* inside login's try block: the index of the next statement
    file,               \* the lines of the credentials file
    result,             \* what load_credentials returned or raised
    driver,             \* the session: "none", "open" or "quit"
    trace,              \* every call issued so far, in order, with its outcome
    exc,                \* the exception in flight, "none" when there is none
    outcome,            \* "running", "returned" or "raised"
    iter,               \* completed iterations of the running `while True' loop
    intervalo_minutos   \* the argument of actualizar_pagina

vars == <<pc, step, file, result, driver, trace, exc, outcome, iter, intervalo_minutos>>

----------------------------------------------------------------------------
(* Bounds *)

\* most lines in a credentials file given to load_credentials alone
MaxLines == 3

\* most iterations of login's keepalive loop that are followed
MaxIter == 2

\* most iterations of actualizar_pagina's loop that are followed
MaxRefresh == 3

----------------------------------------------------------------------------
(* Text helpers: str.strip, str.startswith, "=" in s, str.split("=", 1) *)

USERNAME_KEY == <<"username">>
PASSWORD_KEY == <<"password">>

IsSpace(c) == c = " "

RECURSIVE LStrip(_)
LStrip(s) == IF s /= <<>> /\ IsSpace(Head(s)) THEN LStrip(Tail(s)) ELSE s

RECURSIVE RStrip(_)
RStrip(s) ==
    IF s /= <<>> /\ IsSpace(s[Len(s)]) THEN RStrip(SubSeq(s, 1, Len(s) - 1)) ELSE s

\* str.strip()
Strip(s) == RStrip(LStrip(s))

\* stripped.startswith("#")
StartsWithHash(s) == s /= <<>> /\ Head(s) = "#"

\* "=" in stripped
HasEquals(s) == \E i \in 1..Len(s) : s[i] = "="

\* index of the first "="
FirstEquals(s) == CHOOSE i \in 1..Len(s) : s[i] = "=" /\ \A j \in 1..(i - 1) : s[j] /= "="

\* (item.strip() for item in stripped.split("=", 1))
SplitKeyValue(s) ==
    LET i == FirstEquals(s)
    IN  <<Strip(SubSeq(s, 1, i - 1)), Strip(SubSeq(s, i + 1, Len(s)))>>

----------------------------------------------------------------------------
(* load_credentials *)

\* An optional string: <<>> is None, <<v>> is the string v.
None == <<>>
Some(v) == <<v>>

\* `not stripped or stripped.startswith("#")': the line is skipped
SkipLineNoComment(stripped) == stripped = <<>>
SkipLine(stripped) == stripped = <<>> \/ StartsWithHash(stripped)

\* `username = value' / `password = value': the assignment overwrites
AssignKeepFirst(old, value) == IF old = None THEN Some(value) ELSE old
Assign(old, value) == Some(value)

\* `not username': None and "" are both falsy
FalsyOnlyNone(o) == o = None
Falsy(o) == o = None \/ o[1] = <<>>

Returned(u, p) ==
    [kind |-> "return", msg |-> "", line |-> <<>>, username |-> u, password |-> p]

InvalidLine(line) ==
    [kind |-> "ValueError", msg |-> "Invalid line", line |-> line,
     username |-> <<>>, password |-> <<>>]

MissingKeys ==
    [kind |-> "ValueError", msg |-> "must define both", line |-> <<>>,
     username |-> <<>>, password |-> <<>>]

\* the `for line in ...splitlines()' loop from line i on, then the final check
RECURSIVE ParseFrom(_, _, _, _)
ParseFrom(lines, i, username, password) ==
    IF i > Len(lines)
    THEN IF Falsy(username) \/ Falsy(password)
         THEN MissingKeys
         ELSE Returned(username[1], password[1])
    ELSE LET line == lines[i]
             stripped == Strip(line)
         IN  IF SkipLine(stripped)
             THEN ParseFrom(lines, i + 1, username, password)
             ELSE IF ~HasEquals(stripped)
             THEN InvalidLine(line)
             ELSE LET kv == SplitKeyValue(stripped)
                      key == kv[1]
                      value == kv[2]
                  IN  IF key = USERNAME_KEY
                      THEN ParseFrom(lines, i + 1, Assign(username, value), password)
                      ELSE IF key = PASSWORD_KEY
                      THEN ParseFrom(lines, i + 1, username, Assign(password, value))
                      ELSE ParseFrom(lines, i + 1, username, password)

load_credentials(lines) == ParseFrom(lines, 1, None, None)

\* the result before load_credentials has run
NoResult ==
    [kind |-> "none", msg |-> "", line |-> <<>>, username |-> <<>>, password |-> <<>>]

----------------------------------------------------------------------------
(* Inputs of load_credentials: the lines a credentials file is made of *)

CredentialLines ==
    { <<"username", "=", "a">>,
      <<"username", "=", "b">>,
      <<" ", "username", " ", "=", " ", "a", " ">>,
      <<"username", "=">>,
      <<"password", "=", "a">>,
      <<"password", "=", " ", "b", "=", "a", " ">>,
      <<"password", "=", " ">>,
      <<"a", "=", "b">>,
      <<"username", "a", "=", "b">>,
      <<"=", "a">>,
      <<>>,
      <<" ">>,
      <<"#", "username", "=", "b">>,
      <<" ", "#", "a">>,
      <<"a">>,
      <<" ", "username", " ">> }

\* the files of at most MaxLines lines
CredentialFiles == UNION {[1..n -> CredentialLines] : n \in 0..MaxLines}

----------------------------------------------------------------------------
(* Specification of load_credentials alone *)

InitLoad ==
    /\ pc = "load_credentials"
    /\ step = 0
    /\ file \in CredentialFiles
    /\ result = NoResult
    /\ driver = "none"
    /\ trace = <<>>
    /\ exc = "none"
    /\ outcome = "running"
    /\ iter = 0
    /\ intervalo_minutos = 0

LoadOnly ==
    /\ pc = "load_credentials"
    /\ result' = load_credentials(file)
    /\ pc' = "done"
    /\ outcome' = IF result'.kind = "return" THEN "returned" ELSE "raised"
    /\ exc' = IF result'.kind = "return" THEN "none" ELSE "ValueError"
    /\ UNCHANGED <<step, file, driver, trace, iter, intervalo_minutos>>

NextLoad == LoadOnly

SpecLoad == InitLoad /\ [][NextLoad]_vars

----------------------------------------------------------------------------
(* login: constants *)

LOGIN_URL == "https://campusvirtual.cedsa.edu.ar/postitulo/login/index.php"
COURSE_HOME_URL == "https://campusvirtual.cedsa.edu.ar/postitulo/course/view.php?id=94"
MODULE_ONE_URL == "https://campusvirtual.cedsa.edu.ar/postitulo/course/view.php?id=94&section=4"
RECOVERY_MODULE_URL == "https://campusvirtual.cedsa.edu.ar/postitulo/course/view.php?id=94&section=3"
ASSIGNMENT_URL == "https://campusvirtual.cedsa.edu.ar/postitulo/mod/assign/view.php?id=16088"
TEN_MINUTES_SECONDS == 10 * 60
SETTLE_SECONDS == 10
USERNAME_FIELD_ID == "username"
PASSWORD_FIELD_ID == "password"
LOGIN_BUTTON_ID == "loginbtn"

\* one statement of the try block: a call and its argument
Stmt(op, arg, secs) == [op |-> op, arg |-> arg, secs |-> secs]

\* LoginSteps with the click issued before the password is typed
LoginStepsClickEarly ==
    << Stmt("get", LOGIN_URL, 0),
       Stmt("wait", USERNAME_FIELD_ID, 0),
       Stmt("wait", PASSWORD_FIELD_ID, 0),
       Stmt("wait", LOGIN_BUTTON_ID, 0),
       Stmt("clear", USERNAME_FIELD_ID, 0),
       Stmt("send_keys", USERNAME_FIELD_ID, 0),
       Stmt("click", LOGIN_BUTTON_ID, 0),
       Stmt("clear", PASSWORD_FIELD_ID, 0),
       Stmt("send_keys", PASSWORD_FIELD_ID, 0),
       Stmt("wait", "current_url != LOGIN_URL", 0),
       Stmt("print", "Login attempt submitted.", 0) >>

\* lines 112-134: open the login page, wait for the form, fill it, submit
LoginSteps ==
    << Stmt("get", LOGIN_URL, 0),
       Stmt("wait", USERNAME_FIELD_ID, 0),
       Stmt("wait", PASSWORD_FIELD_ID, 0),
       Stmt("wait", LOGIN_BUTTON_ID, 0),
       Stmt("clear", USERNAME_FIELD_ID, 0),
       Stmt("send_keys", USERNAME_FIELD_ID, 0),
       Stmt("clear", PASSWORD_FIELD_ID, 0),
       Stmt("send_keys", PASSWORD_FIELD_ID, 0),
       Stmt("click", LOGIN_BUTTON_ID, 0),
       Stmt("wait", "current_url != LOGIN_URL", 0),
       Stmt("print", "Login attempt submitted.", 0) >>

\* lines 136-159: the fixed visits before the loop
VisitSteps ==
    << Stmt("get", COURSE_HOME_URL, 0),
       Stmt("wait", COURSE_HOME_URL, 0),
       Stmt("print", "Opened the diplomatura course page.", 0),
       Stmt("get", RECOVERY_MODULE_URL, 0),
       Stmt("wait", RECOVERY_MODULE_URL, 0),
       Stmt("print", "Opened the recovery module page.", 0),
       Stmt("get", ASSIGNMENT_URL, 0),
       Stmt("wait", ASSIGNMENT_URL, 0),
       Stmt("print", "Opened the assignment page.", 0),
       Stmt("sleep", "", SETTLE_SECONDS),
       Stmt("get", COURSE_HOME_URL, 0),
       Stmt("wait", COURSE_HOME_URL, 0),
       Stmt("print", "Starting 10-minute navigation loop", 0),
       Stmt("print", "Close the browser window or press Ctrl+C", 0) >>

\* LoopSteps with the two targets exchanged
LoopStepsHomeFirst ==
    << Stmt("print", "Waiting 10 minutes on the course home page", 0),
       Stmt("sleep", "", TEN_MINUTES_SECONDS),
       Stmt("get", COURSE_HOME_URL, 0),
       Stmt("wait", COURSE_HOME_URL, 0),
       Stmt("print", "Module 1 opened.", 0),
       Stmt("sleep", "", TEN_MINUTES_SECONDS),
       Stmt("get", MODULE_ONE_URL, 0),
       Stmt("wait", MODULE_ONE_URL, 0),
       Stmt("print", "Returned to the course home page.", 0) >>

\* lines 162-174: the body of `while True'
LoopSteps ==
    << Stmt("print", "Waiting 10 minutes on the course home page", 0),
       Stmt("sleep", "", TEN_MINUTES_SECONDS),
       Stmt("get", MODULE_ONE_URL, 0),
       Stmt("wait", MODULE_ONE_URL, 0),
       Stmt("print", "Module 1 opened.", 0),
       Stmt("sleep", "", TEN_MINUTES_SECONDS),
       Stmt("get", COURSE_HOME_URL, 0),
       Stmt("wait", COURSE_HOME_URL, 0),
       Stmt("print", "Returned to the course home page.", 0) >>

\* the statements of the outer try block, lines 112-174
TryBlock == LoginSteps \o VisitSteps \o LoopSteps

\* the first statement of the `while True' body
LoopStart == Len(LoginSteps) + Len(VisitSteps) + 1

\* the statement is inside the inner try (lines 161-174)
InLoop(s) == s >= LoopStart

\* the statement executed after statement s: the loop body repeats
Following(s) == IF s = Len(TryBlock) THEN LoopStart ELSE s + 1

\* IsWebDriverException were TimeoutException a class of its own
IsExactlyWebDriverException(e) == e = "WebDriverException"

\* selenium.common.exceptions: TimeoutException derives from WebDriverException
IsWebDriverException(e) == e \in {"WebDriverException", "TimeoutException"}

\* what a call can do besides succeed
Raises(op) ==
    CASE op = "print" -> {}
      [] op = "sleep" -> {"KeyboardInterrupt"}
      [] op = "wait"  -> {"TimeoutException", "WebDriverException",
                          "KeyboardInterrupt", "OtherException"}
      [] OTHER        -> {"WebDriverException", "KeyboardInterrupt", "OtherException"}

\* Handler without the finally clause: an uncaught exception leaves at once
HandlerNoFinally(s, e) ==
    IF InLoop(s) /\ e = "KeyboardInterrupt" THEN "except KeyboardInterrupt"
    ELSE IF InLoop(s) /\ IsWebDriverException(e) THEN "except WebDriverException"
    ELSE "done"

\* Handler without the `except KeyboardInterrupt' clause
HandlerNoInterrupt(s, e) ==
    IF InLoop(s) /\ IsWebDriverException(e) THEN "except WebDriverException"
    ELSE "finally"

\* where control goes when statement s raises e: the except clauses of the
\* inner try (lines 175, 177), else the finally clause (line 182)
Handler(s, e) ==
    IF InLoop(s) /\ e = "KeyboardInterrupt" THEN "except KeyboardInterrupt"
    ELSE IF InLoop(s) /\ IsWebDriverException(e) THEN "except WebDriverException"
    ELSE "finally"

\* AfterLoad were the credentials checked only when they are used
AfterLoadUnchecked(res) == "create_driver"

\* where login goes after load_credentials: it raises, or the session is created
AfterLoad(res) == IF res.kind = "return" THEN "create_driver" ELSE "done"

\* one record of the trace
Call(op, arg, text, secs, out) ==
    [op |-> op, arg |-> arg, text |-> text, secs |-> secs, out |-> out]

\* the text typed into a field
TextFor(field) == IF field = USERNAME_FIELD_ID THEN result.username ELSE result.password

----------------------------------------------------------------------------
(* login: actions                                                          *)
(*                                                                         *)
(* A statement raises where the code calls out: a call on the driver or on *)
(* an element (WebDriverException, KeyboardInterrupt, another exception),  *)
(* a wait (these and TimeoutException), a sleep (KeyboardInterrupt).       *)
(* print and the construction of WebDriverWait are taken not to raise, and *)
(* Chrome's quit() swallows the exceptions of the driver.                  *)

\* the credentials files login is run on
LoginFiles ==
    { <<<<"username", "=", "a">>, <<"password", "=", "b">>>>,
      <<<<"#", "a">>, <<"password", "=", " ", "b", "=", "a", " ">>, <<" ", "username", " ", "=", " ", "a", " ">>>>,
      <<<<"username", "=", "a">>, <<"username", "=", "b">>, <<"password", "=", "a">>>>,
      <<<<"username", "=", "a">>>>,
      <<<<"username", "=">>, <<"password", "=", "a">>>>,
      <<<<"username", "=", "a">>, <<"password", "=", "a">>, <<"a">>>>,
      <<>> }

Init ==
    /\ pc = "load_credentials"
    /\ step = 0
    /\ file \in LoginFiles
    /\ result = NoResult
    /\ driver = "none"
    /\ trace = <<>>
    /\ exc = "none"
    /\ outcome = "running"
    /\ iter = 0
    /\ intervalo_minutos = 0

\* line 106
LoadCredentials ==
    /\ pc = "load_credentials"
    /\ result' = load_credentials(file)
    /\ pc' = AfterLoad(result')
    /\ exc' = IF result'.kind = "return" THEN "none" ELSE "ValueError"
    /\ outcome' = IF pc' = "done" THEN "raised" ELSE "running"
    /\ UNCHANGED <<step, file, driver, trace, iter, intervalo_minutos>>

\* line 108: the session is created, or create_driver raises
CreateDriver ==
    /\ pc = "create_driver"
    /\ \E out \in {"ok", "OtherException", "WebDriverException", "KeyboardInterrupt"} :
          /\ trace' = Append(trace, Call("create_driver", "", <<>>, 0, out))
          /\ IF out = "ok"
             THEN /\ driver' = "open"
                  /\ pc' = "WebDriverWait"
                  /\ UNCHANGED <<exc, outcome>>
             ELSE /\ pc' = "done"
                  /\ exc' = out
                  /\ outcome' = "raised"
                  /\ UNCHANGED driver
    /\ UNCHANGED <<step, file, result, iter, intervalo_minutos>>

\* line 109: WebDriverWait(driver, 20) only stores its arguments
MakeWait ==
    /\ pc = "WebDriverWait"
    /\ pc' = "try"
    /\ step' = 1
    /\ UNCHANGED <<file, result, driver, trace, exc, outcome, iter, intervalo_minutos>>

\* the next statement of the try block is a call of op
At(op) == pc = "try" /\ TryBlock[step].op = op

\* one statement of the try block: it succeeds and control moves on, or it
\* raises and control goes to the handler
Execute(text) ==
    /\ InLoop(step) => iter < MaxIter
    /\ LET st == TryBlock[step]
           op == st.op
       IN \E out \in {"ok"} \cup Raises(op) :
             /\ trace' = Append(trace, Call(op, st.arg, text, st.secs, out))
             /\ IF out = "ok"
                THEN /\ step' = Following(step)
                     /\ iter' = IF step = Len(TryBlock) THEN iter + 1 ELSE iter
                     /\ UNCHANGED <<pc, exc>>
                ELSE /\ pc' = Handler(step, out)
                     /\ exc' = IF pc' = "finally" THEN out ELSE "none"
                     /\ UNCHANGED <<step, iter>>
    /\ UNCHANGED <<file, result, driver, outcome, intervalo_minutos>>

\* driver.get(url)
Get == At("get") /\ Execute(<<>>)

\* wait.until(condition)
WaitUntil == At("wait") /\ Execute(<<>>)

\* element.clear()
Clear == At("clear") /\ Execute(<<>>)

\* element.send_keys(text)
SendKeys == At("send_keys") /\ Execute(TextFor(TryBlock[step].arg))

\* login_button.click()
Click == At("click") /\ Execute(<<>>)

\* time.sleep(seconds)
Sleep == At("sleep") /\ Execute(<<>>)

\* print(message)
PrintLine == At("print") /\ Execute(<<>>)

\* lines 175-176
ExceptKeyboardInterrupt ==
    /\ pc = "except KeyboardInterrupt"
    /\ trace' = Append(trace, Call("print", "Navigation loop interrupted by user.", <<>>, 0, "ok"))
    /\ pc' = "finally"
    /\ UNCHANGED <<step, file, result, driver, exc, outcome, iter, intervalo_minutos>>

\* lines 177-181
ExceptWebDriverException ==
    /\ pc = "except WebDriverException"
    /\ trace' = Append(trace, Call("print", "WebDriver reported an issue", <<>>, 0, "ok"))
    /\ pc' = "finally"
    /\ UNCHANGED <<step, file, result, driver, exc, outcome, iter, intervalo_minutos>>

\* lines 182-183: driver.quit(), then the exception in flight, if any, goes on
Finally ==
    /\ pc = "finally"
    /\ trace' = Append(trace, Call("quit", "", <<>>, 0, "ok"))
    /\ driver' = "quit"
    /\ pc' = "done"
    /\ outcome' = IF exc = "none" THEN "returned" ELSE "raised"
    /\ UNCHANGED <<step, file, result, exc, iter, intervalo_minutos>>

Next ==
    \/ LoadCredentials
    \/ CreateDriver
    \/ MakeWait
    \/ Get
    \/ WaitUntil
    \/ Clear
    \/ SendKeys
    \/ Click
    \/ Sleep
    \/ PrintLine
    \/ ExceptKeyboardInterrupt
    \/ ExceptWebDriverException
    \/ Finally

Spec == Init /\ [][Next]_vars

----------------------------------------------------------------------------
(* actualizar_pagina *)

\* the url the script is started with
REFRESH_URL == "https://campusvirtual.cedsa.edu.ar/postitulo/course/view.php?id=38"

\* the intervals actualizar_pagina is run with; 10 is the default
Intervals == {1, 2, 5, 10}

\* the interval passed to time.sleep unconverted
IntervalUnconverted(minutos) == minutos

\* intervalo_segundos = intervalo_minutos * 60
intervalo_segundos(minutos) == minutos * 60

InitRefresh ==
    /\ pc = "Chrome"
    /\ step = 0
    /\ file = <<>>
    /\ result = NoResult
    /\ driver = "none"
    /\ trace = <<>>
    /\ exc = "none"
    /\ outcome = "running"
    /\ iter = 0
    /\ intervalo_minutos \in Intervals

\* a call inside the with block succeeds and control moves on to `next', or
\* it raises and the with block is left through __exit__
InWith(op, arg, secs, raises, next) ==
    \E out \in {"ok"} \cup raises :
        /\ trace' = Append(trace, Call(op, arg, <<>>, secs, out))
        /\ pc' = IF out = "ok" THEN next ELSE "__exit__"
        /\ exc' = IF out = "ok" THEN "none" ELSE out

\* line 19: webdriver.Chrome(options=opciones) and __enter__
OpenChrome ==
    /\ pc = "Chrome"
    /\ \E out \in {"ok", "WebDriverException", "KeyboardInterrupt", "OtherException"} :
          /\ trace' = Append(trace, Call("Chrome", "", <<>>, 0, out))
          /\ IF out = "ok"
             THEN /\ driver' = "open"
                  /\ pc' = "get"
                  /\ UNCHANGED <<exc, outcome>>
             ELSE /\ pc' = "done"
                  /\ exc' = out
                  /\ outcome' = "raised"
                  /\ UNCHANGED driver
    /\ UNCHANGED <<step, file, result, iter, intervalo_minutos>>

\* line 20: driver.get(url)
OpenUrl ==
    /\ pc = "get"
    /\ InWith("get", REFRESH_URL, 0, Raises("get"), "sleep")
    /\ UNCHANGED <<step, file, result, driver, outcome, iter, intervalo_minutos>>

\* line 24: time.sleep(intervalo_segundos)
SleepInterval ==
    /\ pc = "sleep"
    /\ iter < MaxRefresh
    /\ InWith("sleep", "", intervalo_segundos(intervalo_minutos), Raises("sleep"), "refresh")
    /\ UNCHANGED <<step, file, result, driver, outcome, iter, intervalo_minutos>>

\* line 25: driver.refresh()
Refresh ==
    /\ pc = "refresh"
    /\ InWith("refresh", "", 0, Raises("refresh"), "print")
    /\ UNCHANGED <<step, file, result, driver, outcome, iter, intervalo_minutos>>

\* line 26: print, and back to the head of `while True'
PrintStatus ==
    /\ pc = "print"
    /\ InWith("print", "Pagina actualizada", 0, Raises("print"), "sleep")
    /\ iter' = iter + 1
    /\ UNCHANGED <<step, file, result, driver, outcome, intervalo_minutos>>

\* line 19: leaving the with block on an exception: __exit__ quits the
\* driver and the exception goes on
ExitWith ==
    /\ pc = "__exit__"
    /\ trace' = Append(trace, Call("quit", "", <<>>, 0, "ok"))
    /\ driver' = "quit"
    /\ pc' = "done"
    /\ outcome' = IF exc = "none" THEN "returned" ELSE "raised"
    /\ UNCHANGED <<step, file, result, exc, iter, intervalo_minutos>>

NextRefresh ==
    \/ OpenChrome
    \/ OpenUrl
    \/ SleepInterval
    \/ Refresh
    \/ PrintStatus
    \/ ExitWith

SpecRefresh == InitRefresh /\ [][NextRefresh]_vars

----------------------------------------------------------------------------
(* What the claims about load_credentials speak of, stated on the file itself *)

\* s with the blanks at both ends removed
Trimmed(s) ==
    IF \A k \in 1..Len(s) : s[k] = " "
    THEN <<>>
    ELSE LET a == CHOOSE k \in 1..Len(s) : s[k] /= " " /\ \A m \in 1..(k - 1) : s[m] = " "
             b == CHOOSE k \in 1..Len(s) : s[k] /= " " /\ \A m \in (k + 1)..Len(s) : s[m] = " "
         IN  [k \in 1..(b - a + 1) |-> s[a + k - 1]]

BlankLine(l) == \A k \in 1..Len(l) : l[k] = " "
CommentLine(l) == \E k \in 1..Len(l) : l[k] = "#" /\ \A m \in 1..(k - 1) : l[m] = " "
EntryLine(l) == ~BlankLine(l) /\ ~CommentLine(l)
LacksEquals(l) == \A k \in 1..Len(l) : l[k] /= "="
EqPos(l) == CHOOSE k \in 1..Len(l) : l[k] = "=" /\ \A m \in 1..(k - 1) : l[m] /= "="
KeyOf(l) == Trimmed([k \in 1..(EqPos(l) - 1) |-> l[k]])
ValueOf(l) == Trimmed([k \in 1..(Len(l) - EqPos(l)) |-> l[EqPos(l) + k]])

WellFormed(f) == \A i \in 1..Len(f) : EntryLine(f[i]) => ~LacksEquals(f[i])
Defines(f, i, key) == EntryLine(f[i]) /\ ~LacksEquals(f[i]) /\ KeyOf(f[i]) = key
HasKey(f, key) == \E i \in 1..Len(f) : Defines(f, i, key)
LastLineOf(f, key) ==
    CHOOSE i \in 1..Len(f) : Defines(f, i, key) /\ \A j \in (i + 1)..Len(f) : ~Defines(f, j, key)
LastValue(f, key) == ValueOf(f[LastLineOf(f, key)])
NoValue(f, key) == ~HasKey(f, key) \/ LastValue(f, key) = <<>>
BadLine(f, i) == EntryLine(f[i]) /\ LacksEquals(f[i])
FirstBadLine(f) == CHOOSE i \in 1..Len(f) : BadLine(f, i) /\ \A j \in 1..(i - 1) : ~BadLine(f, j)

Loaded == pc = "done" /\ result.kind /= "none"

\* C7 as stated: for every well-formed file with both keys present,
\* load_credentials returns the trimmed last value of each key.
C7_AsStated ==
    (Loaded /\ WellFormed(file) /\ HasKey(file, USERNAME_KEY) /\ HasKey(file, PASSWORD_KEY))
        => /\ result.kind = "return"
           /\ result.username = LastValue(file, USERNAME_KEY)
           /\ result.password = LastValue(file, PASSWORD_KEY)

\* C7 amended: for every well-formed file in which both keys are present and
\* the last value of each key is non-empty after trimming, load_credentials
\* returns exactly (last username value, last password value), trimmed;
\* other keys, blank lines and comment lines do not change the result.
C7_LastValuesReturned ==
    (Loaded /\ WellFormed(file) /\ ~NoValue(file, USERNAME_KEY) /\ ~NoValue(file, PASSWORD_KEY))
        => /\ result.kind = "return"
           /\ result.username = LastValue(file, USERNAME_KEY)
           /\ result.password = LastValue(file, PASSWORD_KEY)

\* a returned pair from a file with two username lines of different values
C7_Witness ==
    /\ Loaded /\ result.kind = "return"
    /\ \E i, j \in 1..Len(file) :
          /\ i < j
          /\ Defines(file, i, USERNAME_KEY) /\ Defines(file, j, USERNAME_KEY)
          /\ ValueOf(file[i]) /= ValueOf(file[j])
          /\ result.username = ValueOf(file[j])

\* C8: a file that, once parsed, has no non-empty value for username or for
\* password makes load_credentials raise ValueError and return no pair; when
\* every entry line has an "=", it is the "must define both" error.
C8_MissingKeyFails ==
    (Loaded /\ (NoValue(file, USERNAME_KEY) \/ NoValue(file, PASSWORD_KEY)))
        => /\ result.kind = "ValueError"
           /\ result.username = <<>> /\ result.password = <<>>
           /\ WellFormed(file) => result = MissingKeys

\* the username is given, the password is not, another key=value line is there
C8_Witness ==
    /\ Loaded /\ result = MissingKeys
    /\ ~NoValue(file, USERNAME_KEY) /\ ~HasKey(file, PASSWORD_KEY)
    /\ \E i \in 1..Len(file) : Defines(file, i, <<"a">>)

\* C9 as stated: every line without "=" makes load_credentials fail with the
\* format error naming that line.
C9_AsStated ==
    Loaded => \A i \in 1..Len(file) :
                 LacksEquals(file[i]) => result = InvalidLine(file[i])

\* C9 amended: when some line that is neither blank nor a comment lacks "=",
\* load_credentials fails with the format error naming the first such line,
\* whether or not username and password are defined elsewhere in the file.
C9_FirstBadLineNamed ==
    (Loaded /\ ~WellFormed(file)) => result = InvalidLine(file[FirstBadLine(file)])

\* both keys are defined before the offending line, and a comment precedes it
C9_Witness ==
    /\ Loaded /\ result.msg = "Invalid line"
    /\ ~NoValue(file, USERNAME_KEY) /\ ~NoValue(file, PASSWORD_KEY)
    /\ FirstBadLine(file) = Len(file)

----------------------------------------------------------------------------
(* Claims about login *)

SessionOps == {"get", "wait", "clear", "send_keys", "click"}
QuitCalls == {i \in 1..Len(trace) : trace[i].op = "quit"}
Faults == {i \in 1..Len(trace) : trace[i].op /= "create_driver" /\ trace[i].out /= "ok"}
FaultsOf(kinds) == {i \in Faults : trace[i].out \in kinds}
Brief(e) == [op |-> e.op, arg |-> e.arg, secs |-> e.secs]
StatusLine(kind) ==
    IF kind = "KeyboardInterrupt" THEN "Navigation loop interrupted by user."
    ELSE "WebDriver reported an issue"

\* C1: once the session exists, every way out of login releases it by
\* driver.quit(), called exactly once, and nothing is issued on the session
\* after the release.
C1_ReleasedExactlyOnce ==
    /\ Cardinality(QuitCalls) <= 1
    /\ (driver /= "none" /\ pc = "done") => (driver = "quit" /\ Cardinality(QuitCalls) = 1)
    /\ (driver = "quit") <=> (QuitCalls /= {})
    /\ \A i \in QuitCalls : \A j \in (i + 1)..Len(trace) : trace[j].op \notin SessionOps \cup {"sleep"}

\* a run that left by an exception no clause catches, from inside the loop
C1_Witness ==
    /\ pc = "done" /\ driver = "quit" /\ outcome = "raised"
    /\ exc = "OtherException" /\ InLoop(step)

\* C2: a WebDriverException or KeyboardInterrupt raised by a statement of the
\* keepalive loop is followed by exactly one status line and the release and
\* nothing else, and login returns normally.
C2_LoopStopsCleanly ==
    \A k \in FaultsOf({"WebDriverException", "KeyboardInterrupt"}) :
        InLoop(step) =>
            /\ pc \in {"except KeyboardInterrupt", "except WebDriverException", "finally", "done"}
            /\ exc = "none"
            /\ Len(trace) <= k + 2
            /\ Len(trace) >= k + 1 =>
                  Brief(trace[k + 1]) = [op |-> "print", arg |-> StatusLine(trace[k].out), secs |-> 0]
            /\ Len(trace) >= k + 2 => trace[k + 2].op = "quit"
            /\ pc = "finally" => Len(trace) = k + 1
            /\ pc = "done" => (Len(trace) = k + 2 /\ outcome = "returned" /\ driver = "quit")

\* the session fails at the navigation back to the course home, in the
\* second iteration, and login has returned
C2_Witness ==
    /\ pc = "done" /\ outcome = "returned" /\ iter >= 1
    /\ \E k \in FaultsOf({"WebDriverException"}) :
          trace[k].op = "get" /\ trace[k].arg = COURSE_HOME_URL /\ InLoop(step)

\* what login issues after the login step: navigations, URL waits and sleeps
AfterLogin ==
    LET moves == SelectSeq(trace, LAMBDA e : e.op \in {"get", "wait", "sleep"})
    IN  IF Len(moves) <= 5 THEN <<>> ELSE SubSeq(moves, 6, Len(moves))

Visit(url) == <<[op |-> "get", arg |-> url, secs |-> 0], [op |-> "wait", arg |-> url, secs |-> 0]>>
Pause(secs) == <<[op |-> "sleep", arg |-> "", secs |-> secs]>>
FixedVisits ==
    Visit(COURSE_HOME_URL) \o Visit(RECOVERY_MODULE_URL) \o Visit(ASSIGNMENT_URL) \o Pause(10)
Alternation ==
    Pause(600) \o Visit(MODULE_ONE_URL) \o Pause(600) \o Visit(COURSE_HOME_URL)
Follows(prefix, cycle, n) ==
    IF n <= Len(prefix) THEN prefix[n] ELSE cycle[((n - Len(prefix) - 1) % Len(cycle)) + 1]

\* C3 as stated: with no failure, login visits course home, recovery section
\* and assignment page, sleeps the settle delay, and goes straight into the
\* alternation.
C3_AsStated ==
    Faults = {} =>
        \A n \in 1..Len(AfterLogin) :
            Brief(AfterLogin[n]) = Follows(FixedVisits, Alternation, n)

\* C3 amended: with no failure, login visits course home, recovery section
\* and assignment page (each confirmed by an exact-URL wait), sleeps the
\* settle delay, navigates once more to the course home and confirms it, and
\* only then alternates: sleep 10 minutes, module, confirm, sleep 10 minutes,
\* course home, confirm.
C3_VisitsThenHomeThenAlternation ==
    Faults = {} =>
        \A n \in 1..Len(AfterLogin) :
            Brief(AfterLogin[n]) = Follows(FixedVisits \o Visit(COURSE_HOME_URL), Alternation, n)

\* a run without failure that has gone once round the loop and further
C3_Witness ==
    /\ Faults = {} /\ iter >= 1
    /\ Len(AfterLogin) > Len(FixedVisits) + 2 + Len(Alternation)

\* C4: when the URL-change check is issued, what was issued on the session
\* before it is exactly: one get of the login URL, the three waits in order,
\* clear and fill of the username, clear and fill of the password with the
\* loaded values, one click; all of them succeeded.
C4_LoginStepsBeforeUrlCheck ==
    \A k \in 1..Len(trace) :
        (trace[k].op = "wait" /\ trace[k].arg = "current_url != LOGIN_URL") =>
            /\ trace[1] = Call("create_driver", "", <<>>, 0, "ok")
            /\ SubSeq(trace, 2, k - 1) =
                 << Call("get", LOGIN_URL, <<>>, 0, "ok"),
                    Call("wait", "username", <<>>, 0, "ok"),
                    Call("wait", "password", <<>>, 0, "ok"),
                    Call("wait", "loginbtn", <<>>, 0, "ok"),
                    Call("clear", "username", <<>>, 0, "ok"),
                    Call("send_keys", "username", LastValue(file, USERNAME_KEY), 0, "ok"),
                    Call("clear", "password", <<>>, 0, "ok"),
                    Call("send_keys", "password", LastValue(file, PASSWORD_KEY), 0, "ok"),
                    Call("click", "loginbtn", <<>>, 0, "ok") >>

\* the URL-change check has been issued and has succeeded
C4_Witness ==
    \E k \in 1..Len(trace) :
        trace[k].op = "wait" /\ trace[k].arg = "current_url != LOGIN_URL" /\ trace[k].out = "ok"

\* C5 as stated: a timeout at any wait step, those of the keepalive loop
\* included, leaves login as an exception, after the release, with no retry.
C5_AsStated ==
    \A k \in FaultsOf({"TimeoutException"}) :
        pc = "done" =>
            /\ outcome = "raised" /\ exc = "TimeoutException"
            /\ driver = "quit"
            /\ Len(trace) = k + 1 /\ trace[k + 1].op = "quit"

\* C5 amended: a timeout at a wait step before the keepalive loop leaves
\* login as an exception; a timeout at a wait step inside the loop is caught
\* by the WebDriverException clause, logged with one status line, and login
\* returns normally.  In both cases the session is released and nothing is
\* retried.
C5_TimeoutFatalBeforeLoop ==
    \A k \in FaultsOf({"TimeoutException"}) :
        /\ pc /= "try"
        /\ \A j \in (k + 1)..Len(trace) : trace[j].op \in {"print", "quit"}
        /\ pc = "done" =>
              /\ driver = "quit" /\ trace[Len(trace)].op = "quit"
              /\ ~InLoop(step) =>
                    (outcome = "raised" /\ exc = "TimeoutException" /\ Len(trace) = k + 1)
              /\ InLoop(step) =>
                    /\ outcome = "returned" /\ exc = "none" /\ Len(trace) = k + 2
                    /\ trace[k + 1].arg = "WebDriver reported an issue"

\* a timeout of a URL wait inside the loop, after which login has returned
C5_Witness ==
    /\ pc = "done" /\ InLoop(step) /\ outcome = "returned"
    /\ FaultsOf({"TimeoutException"}) /= {}

\* a timeout before the loop, after which login has raised
C5_WitnessBeforeLoop ==
    /\ pc = "done" /\ ~InLoop(step) /\ outcome = "raised"
    /\ FaultsOf({"TimeoutException"}) /= {}

\* C6: with a malformed or incomplete credentials file login raises the
\* ValueError before create_driver is called: no call is issued and there is
\* no session.
C6_NoSessionOnBadCredentials ==
    (pc /= "load_credentials"
       /\ (~WellFormed(file) \/ NoValue(file, USERNAME_KEY) \/ NoValue(file, PASSWORD_KEY)))
        => /\ pc = "done" /\ outcome = "raised" /\ exc = "ValueError"
           /\ driver = "none" /\ trace = <<>>

\* login has raised on a file with a line that lacks "="
C6_Witness ==
    pc = "done" /\ ~WellFormed(file) /\ outcome = "raised" /\ trace = <<>>

----------------------------------------------------------------------------
(* Claims about actualizar_pagina *)

Ops(op) == {i \in 1..Len(trace) : trace[i].op = op}
Cycle == <<"sleep", "refresh", "print">>

\* C10: the url is opened exactly once, at the start; after it the calls are
\* sleep, reload, print, in that order, again and again; every sleep lasts
\* intervalo_minutos * 60 seconds; a reload that fails is followed by nothing
\* but the release of the driver and the exception leaves actualizar_pagina;
\* the run never returns normally.
C10_SleepReloadPrintForever ==
    /\ Ops("get") \subseteq {2}
    /\ \A i \in Ops("get") : trace[i].arg = REFRESH_URL /\ trace[1].op = "Chrome"
    /\ \A i \in 3..Len(trace) :
          trace[i].op /= "quit" =>
              /\ trace[i].op = Cycle[((i - 3) % 3) + 1]
              /\ trace[i - 1].out = "ok"
    /\ \A i \in Ops("sleep") : trace[i].secs = intervalo_minutos * 60
    /\ \A i \in Ops("refresh") : trace[i - 1].op = "sleep" /\ trace[i - 1].out = "ok"
    /\ \A i \in Ops("refresh") :
          trace[i].out /= "ok" =>
              /\ pc \in {"__exit__", "done"}
              /\ exc = trace[i].out
              /\ Len(trace) <= i + 1
              /\ pc = "done" => (Len(trace) = i + 1 /\ trace[i + 1].op = "quit" /\ outcome = "raised")
    /\ outcome /= "returned"

\* the second reload fails and the exception has left actualizar_pagina
C10_Witness ==
    /\ pc = "done" /\ outcome = "raised" /\ exc = "WebDriverException" /\ iter = 1
    /\ \E i \in Ops("refresh") : trace[i].out = "WebDriverException"
    /\ Cardinality(Ops("refresh")) = 2

====
